---- MODULE Spec2Model ----
(***************************************************************************)
(* Model of the weather screen of clima-app, src/app/(tabs)/index.tsx.     *)
(*                                                                         *)
(* The screen is a React function component.  Its state is the set of      *)
(* useState cells; its operations are the async handlers                   *)
(* initByGeolocation, searchByCity, onRefresh/refreshData and fetchAll,    *)
(* the synchronous handler toggleUnits, and the pure transforms            *)
(* compactForecast, processHourlyForecast, displayTemp, getWeatherIcon.    *)
(*                                                                         *)
(* One step of the model is one task of the JavaScript event loop: a user  *)
(* event or the settlement of an awaited platform call, together with the  *)
(* synchronous code and the already-resolved continuations that run after  *)
(* it before control returns to the event loop.                            *)
(*                                                                         *)
(* Temperatures are fixed-point numbers in tenths of a degree, timestamps  *)
(* are seconds since the epoch, as in the API.                             *)
(***************************************************************************)
EXTENDS Integers, Sequences, FiniteSets, TLC

VARIABLES
    loading,         \* useState(true)
    refreshing,      \* useState(false)
    error,           \* useState<string | null>(null)
    units,           \* useState('metric')
    query,           \* useState('')
    coords,          \* useState<Coords | null>(null)
    cityLabel,       \* useState('')
    current,         \* useState<WeatherData | null>(null)
    forecast,        \* useState<ForecastItem[]>([])
    hourlyForecast,  \* useState<HourlyData | null>(null)
    canFetch,        \* Boolean(API_KEY), fixed for a run of the app
    tz,              \* offset of the device's local time from UTC, in seconds
    ops,             \* the async operations: one record per invocation slot
    lastOutcome,     \* history: how the operation that finished last ended
    arrivals,        \* history: the orders in which fetchAll's two responses came
    cycle,           \* history: the fetch cycle last started, see CycleStart
    input,           \* the list handed to the transforms, or the keyword handed
                     \* to the mappings (transform and mapping specifications)
    icon,            \* the result of getWeatherIcon(input), once applied
    image,           \* the result of getWeatherImage(input), once applied
    stage            \* "screen" for the screen; for the transforms on their own,
                     \* "input" before they are applied and "done" after

vars == <<loading, refreshing, error, units, query, coords, cityLabel, current,
          forecast, hourlyForecast, canFetch, tz, ops, lastOutcome, arrivals,
          cycle, input, icon, image, stage>>

uiVars == <<loading, refreshing, error, units, query, coords, cityLabel, current,
            canFetch, ops, lastOutcome, arrivals, cycle>>

-----------------------------------------------------------------------------
(* Values *)

\* null / undefined of a nullable cell; Some(x) is a value that is present.
Null == <<>>
Some(x) == <<x>>

Min(a, b) == IF a <= b THEN a ELSE b
Max(a, b) == IF a >= b THEN a ELSE b

\* Seconds in a calendar day and in an hour of the Date arithmetic behind
\* toDateString() and getHours().
SecondsPerDay == 86400
SecondsPerHour == 3600

\* .slice(0, 5) of compactForecast and .slice(0, 8) of processHourlyForecast.
ForecastDays == 5
HourlySamples == 8

\* new Date(dt * 1000).toDateString(): the local calendar day of a timestamp.
\* Two timestamps have the same string exactly when they fall on the same
\* local day, so the day number stands for the string.
DayKey(dt, offset) == (dt + offset) \div SecondsPerDay

\* new Date(dt * 1000).getHours(): the local hour of a timestamp.
GetHours(dt, offset) == ((dt + offset) % SecondsPerDay) \div SecondsPerHour

\* Math.round on a value in tenths: the nearest integer, halves towards
\* +infinity.
MathRound(t10) == (t10 + 5) \div 10

-----------------------------------------------------------------------------
(* getWeatherIcon *)

IconMap == [Clear |-> "sunny", Clouds |-> "cloudy", Rain |-> "rainy",
            Snow |-> "snow", Thunderstorm |-> "thunderstorm",
            Drizzle |-> "rainy-outline", Mist |-> "cloudy-outline",
            Smoke |-> "cloudy-outline", Haze |-> "cloudy-outline",
            Dust |-> "cloudy-outline", Fog |-> "cloudy-outline",
            Sand |-> "cloudy-outline", Ash |-> "cloudy-outline",
            Squall |-> "rainy-outline", Tornado |-> "thunderstorm"]

\* String(undefined) is the key "undefined", which the table does not hold.
Undefined == "undefined"

\* map is an object literal, so map[key] also finds the members the literal
\* inherits from Object.prototype; each of them is a function or an object,
\* which is truthy and so is what map[key] || fallback evaluates to.
ObjectPrototypeKeys ==
    {"constructor", "toString", "toLocaleString", "valueOf", "hasOwnProperty",
     "isPrototypeOf", "propertyIsEnumerable", "__proto__", "__defineGetter__",
     "__defineSetter__", "__lookupGetter__", "__lookupSetter__"}
InheritedMember == "[member of Object.prototype]"

\* map[key] || fallback on an object literal with the own properties own.
Lookup(own, key, fallback) ==
    IF key \in DOMAIN own THEN own[key]
    ELSE IF key \in ObjectPrototypeKeys THEN InheritedMember
    ELSE fallback

getWeatherIcon(weatherMain) == Lookup(IconMap, weatherMain, "partly-sunny")

\* getWeatherImage: the uri of each entry, named by its photo.
ImageMap == [Clear |-> "photo-1541119638723-c51cbe2262aa",
             Clouds |-> "photo-1501630834273-4b5604d2ee31",
             Rain |-> "photo-1515694346937-94d85e41e622",
             Snow |-> "photo-1491002052546-bf38f186af56",
             Thunderstorm |-> "photo-1605727226424-ad25e2d00e69",
             Drizzle |-> "photo-1556485671-85b8a7f0e4a7",
             Mist |-> "photo-1485236715568-ddc5ee6ca227"]
DefaultImage == "photo-1614483433234-5a715a4c4b32"

getWeatherImage(weatherMain) == Lookup(ImageMap, weatherMain, DefaultImage)

\* item.weather[0]?.main
WeatherMain0(item) ==
    IF Len(item.weather) > 0 THEN item.weather[1].main ELSE Undefined

-----------------------------------------------------------------------------
(* compactForecast *)

\* item.weather[0] as the day's entry keeps it: Null when the array is empty.
WeatherAt0(item) == IF Len(item.weather) > 0 THEN Some(item.weather[1]) ELSE Null

\* The entry a day is opened with: the literal assigned to byDay[dayKey].
NewDayEntry(k, item) ==
    [key |-> k, dt |-> item.dt,
     temp_min |-> item.main.temp_min,
     temp_max |-> item.main.temp_max,
     weather |-> WeatherAt0(item)]

\* The indices of the entries of byDay under key k (at most one).
EntriesOf(byDay, k) == {i \in 1..Len(byDay) : byDay[i].key = k}

\* One iteration of list.forEach: open the day's entry with the sample, or
\* fold the sample's temperatures into the entry the day already has.  byDay
\* is the object's entries in insertion order, which is the order of
\* Object.values for string keys.
\* Faulty variant: Math.min and Math.max exchanged.
AddToDaySwapped(byDay, item, offset) ==
    LET k == DayKey(item.dt, offset)
    IN  IF EntriesOf(byDay, k) = {}
        THEN Append(byDay, NewDayEntry(k, item))
        ELSE LET i == CHOOSE j \in EntriesOf(byDay, k) : TRUE
             IN  [byDay EXCEPT
                    ![i].temp_min = Max(@, item.main.temp_min),
                    ![i].temp_max = Min(@, item.main.temp_max)]

\* Faulty variant: a later sample of the day replaces its dt and weather.
AddToDayOverwrite(byDay, item, offset) ==
    LET k == DayKey(item.dt, offset)
    IN  IF EntriesOf(byDay, k) = {}
        THEN Append(byDay, NewDayEntry(k, item))
        ELSE LET i == CHOOSE j \in EntriesOf(byDay, k) : TRUE
             IN  [byDay EXCEPT ![i] =
                    [NewDayEntry(k, item) EXCEPT
                        !.temp_min = Min(byDay[i].temp_min, item.main.temp_min),
                        !.temp_max = Max(byDay[i].temp_max, item.main.temp_max)]]

\* The callback as written.
AddToDay(byDay, item, offset) ==
    LET k == DayKey(item.dt, offset)
    IN  IF EntriesOf(byDay, k) = {}
        THEN Append(byDay, NewDayEntry(k, item))
        ELSE LET i == CHOOSE j \in EntriesOf(byDay, k) : TRUE
             IN  [byDay EXCEPT
                    ![i].temp_min = Min(@, item.main.temp_min),
                    ![i].temp_max = Max(@, item.main.temp_max)]

RECURSIVE GroupByDay(_, _, _)
GroupByDay(list, byDay, offset) ==
    IF list = <<>> THEN byDay
    ELSE GroupByDay(Tail(list), AddToDay(byDay, Head(list), offset), offset)

\* Array.prototype.sort((a, b) => a.dt - b.dt): a stable sort, here by
\* insertion of each entry after the entries that do not come after it.
InsertByDt(sorted, e) ==
    LET n == Cardinality({i \in 1..Len(sorted) : sorted[i].dt <= e.dt})
    IN  SubSeq(sorted, 1, n) \o <<e>> \o SubSeq(sorted, n + 1, Len(sorted))

RECURSIVE SortByDtFrom(_, _)
SortByDtFrom(entries, sorted) ==
    IF entries = <<>> THEN sorted
    ELSE SortByDtFrom(Tail(entries), InsertByDt(sorted, Head(entries)))

\* Faulty variant: the sort left out.
SortByDtNone(entries) == entries

SortByDt(entries) == SortByDtFrom(entries, <<>>)

\* Faulty variant: the slice left out.
SliceDaysAll(entries) == entries

SliceDays(entries) == SubSeq(entries, 1, Min(ForecastDays, Len(entries)))

\* The .map at the end: weather?.main ?? '' and weather?.description ?? ''
\* of the entry's weather.
ToForecastItem(it) ==
    [dt |-> it.dt,
     main |-> IF it.weather # Null THEN it.weather[1].main ELSE "",
     desc |-> IF it.weather # Null THEN it.weather[1].description ELSE "",
     temp_min |-> it.temp_min,
     temp_max |-> it.temp_max]

compactForecast(list, offset) ==
    LET kept == SliceDays(SortByDt(GroupByDay(list, <<>>, offset)))
    IN  [i \in 1..Len(kept) |-> ToForecastItem(kept[i])]

-----------------------------------------------------------------------------
(* processHourlyForecast *)

\* `${dt.getHours()}:00`
HourLabel(dt, offset) == <<GetHours(dt, offset), ":00">>

\* Faulty variant: the slice left out.
Next24hAll(list) == list

Next24h(list) == SubSeq(list, 1, Min(HourlySamples, Len(list)))

HourlySeries(next24h, offset) ==
    Some([labels |-> [i \in 1..Len(next24h) |-> HourLabel(next24h[i].dt, offset)],
          data |-> [i \in 1..Len(next24h) |-> MathRound(next24h[i].main.temp_max)],
          icons |-> [i \in 1..Len(next24h) |-> getWeatherIcon(WeatherMain0(next24h[i]))]])

\* arg is the argument: Null for a missing list, Some(list) otherwise.
\* Faulty variant: the test for fewer than two samples left out.
processHourlyForecastNoMinimum(arg, offset) ==
    IF arg = Null \/ Len(arg[1]) = 0 THEN Null
    ELSE HourlySeries(Next24h(arg[1]), offset)

processHourlyForecast(arg, offset) ==
    IF arg = Null \/ Len(arg[1]) = 0 THEN Null
    ELSE LET next24h == Next24h(arg[1])
         IN  IF Len(next24h) < 2 THEN Null
             ELSE HourlySeries(next24h, offset)

-----------------------------------------------------------------------------
(* displayTemp *)

\* Math.round(units === 'imperial' ? temp * 9/5 + 32 : temp), the stored
\* temperature in tenths of a degree Celsius, the result in whole degrees.
displayTemp(temp, u) ==
    IF u = "imperial" THEN (9 * temp + 1625) \div 50 ELSE MathRound(temp)

-----------------------------------------------------------------------------
(* State of the screen *)

NoError == "null"
ErrPermission == "Permiso de ubicacion denegado"
ErrLocation == "No se pudo obtener la ubicacion actual"
ErrCity == "No se encontro la ciudad. Intenta con otro nombre."
ErrApiKey == "Falta la API Key (EXPO_PUBLIC_OPENWEATHER_API_KEY)."
ErrFetch == "Error al obtener datos del clima. Revisa conexion o API key."

NoCoords == "null"

\* The places of the model: a device position or the place a city name
\* resolves to.
Locs == {"A", "B"}

\* What the search box can hold: nothing, blanks only, or a city's name.
Queries == {"", " ", "a", "b"}

\* query.trim()
Trim(q) == IF q = " " THEN "" ELSE q

\* The place the API resolves a city name to.
CityOf(q) == IF q = "a" THEN "A" ELSE "B"

\* Offsets of local time the device may be set to.
TZOffsets == {0, -7200}

\* A forecast sample of the API: ForecastAPIItem.
Sample(dt, tmin, tmax, weather) ==
    [dt |-> dt, main |-> [temp_min |-> tmin, temp_max |-> tmax], weather |-> weather]

Weather(main, description) == <<[main |-> main, description |-> description]>>

\* The bodies the API answers with.  A current-conditions body carries the
\* place (name and coord) and a temperature; a forecast body carries a list,
\* or none.
CurrentTemps == {215, -35}
CurrentBodies(loc) == {[name |-> loc, coord |-> loc, temp |-> t] : t \in CurrentTemps}

ApiList ==
    << Sample(0, 120, 180, Weather("Clear", "cielo claro")),
       Sample(10800, 105, 214, Weather("Rain", "lluvia ligera")),
       Sample(SecondsPerDay, 96, 155, Weather("Clouds", "nubes")) >>
ForecastBodies == {[list |-> Null], [list |-> Some(ApiList)]}

\* How a request to the API can settle: a success response, a non-success
\* response, or a rejection of the fetch.
ApiOutcomes == {"ok", "notok", "reject"}

\* fData?.list || []
ListOrEmpty(fData) == IF fData.list = Null THEN <<>> ELSE fData.list[1]

\* The number of operation slots: how many invocations of the async handlers
\* the model can hold at once.
MaxOps == 2

IdleOp ==
    [pc |-> "idle", kind |-> "none", path |-> "none", viaRefresh |-> FALSE,
     q |-> "", loc |-> NoCoords,
     cRes |-> "none", fRes |-> "none", cJson |-> "none", fJson |-> "none",
     cData |-> Null, fData |-> Null]

\* The operations that have been started and have not returned.
InFlight == {i \in 1..MaxOps : ops[i].pc \notin {"idle", "done"}}

FreeSlots == (1..MaxOps) \ InFlight
NewSlot == CHOOSE i \in FreeSlots : \A j \in FreeSlots : i <= j

\* The three returns of WeatherScreen: the loading view, the error view, and
\* the view with the controls.
LoadingView == loading
ErrorView == ~loading /\ error # NoError
\* Faulty variant of the last: the early return of the loading view left out.
ReadyViewNoLoadingView == error = NoError
ReadyView == ~loading /\ error = NoError

pureVars == <<input, icon, image, stage>>

\* The history of the fetch cycle last started: the handler that fetches
\* (path), the stored data as it was when that handler began (before), the
\* cells the cycle has written so far (written), and the place the stored
\* forecast and hourly series were requested for.
AllCells == {"current", "cityLabel", "forecast", "hourlyForecast"}

Snapshot(c) ==
    [current |-> current, cityLabel |-> cityLabel, coords |-> c,
     forecast |-> forecast, hourlyForecast |-> hourlyForecast]

\* A cycle starts in handler path with coords holding c.
CycleStart(path, c) ==
    [cycle EXCEPT !.path = path, !.written = {}, !.before = Snapshot(c)]

\* The cycle's forecast response for place loc was stored.
ForecastWritten(loc) ==
    [cycle EXCEPT !.written = @ \cup {"forecast", "hourlyForecast"},
                  !.forecastFor = loc, !.hourlyFor = loc]

\* The cycle's current-conditions response was stored.
CurrentWritten == [cycle EXCEPT !.written = @ \cup {"current", "cityLabel"}]

CycleInit ==
    [path |-> "none", written |-> {}, forecastFor |-> NoCoords,
     hourlyFor |-> NoCoords,
     before |-> [current |-> Null, cityLabel |-> "", coords |-> NoCoords,
                 forecast |-> <<>>, hourlyForecast |-> Null]]
dataVars == <<current, cityLabel, forecast, hourlyForecast>>

Init ==
    /\ loading = TRUE
    /\ refreshing = FALSE
    /\ error = NoError
    /\ units = "metric"
    /\ query = ""
    /\ coords = NoCoords
    /\ cityLabel = ""
    /\ current = Null
    /\ forecast = <<>>
    /\ hourlyForecast = Null
    /\ canFetch \in BOOLEAN
    /\ tz \in TZOffsets
    \* the mount effect has called initByGeolocation, which awaits the
    \* permission request
    /\ ops = [i \in 1..MaxOps |->
                IF i = 1 THEN [IdleOp EXCEPT !.pc = "perm", !.kind = "init"]
                ELSE IdleOp]
    /\ lastOutcome = "none"
    /\ arrivals = {}
    /\ cycle = CycleInit
    /\ input = Null
    /\ icon = Null
    /\ image = Null
    /\ stage = "screen"

-----------------------------------------------------------------------------
(* Helpers of the handlers *)

\* The body of a non-success response: { message }.
ErrorBody == [name |-> "", coord |-> NoCoords, temp |-> 0, list |-> Null,
              message |-> "error"]

\* res.ok of a response that has arrived (and a faulty variant that takes
\* every response for a success).
ResponseOkAlways(res) == TRUE
ResponseOk(res) == res = "ok"

\* The catch blocks: the error cell each leaves, given the cell before (and
\* faulty variants of fetchAll's and searchByCity's that swallow the
\* exception).
InitCatch(err) == ErrLocation
SearchCatchSwallow(err) == err
SearchCatch(err) == ErrCity
FetchAllCatchSwallow(err) == err
FetchAllCatch(err) == ErrFetch

\* The finally blocks of initByGeolocation, searchByCity and refreshData:
\* setLoading(false) (and a faulty variant that leaves loading set).
FinallyLoadingKept == TRUE
FinallyLoading == FALSE

\* An operation returns to the event loop for good: its finally block runs,
\* and onRefresh, when it is the caller, clears refreshing.
EndOp(i, err, failed) ==
    /\ error' = err
    /\ loading' = FinallyLoading
    /\ refreshing' = IF ops[i].viaRefresh THEN FALSE ELSE refreshing
    /\ ops' = [ops EXCEPT ![i].pc = "done"]
    /\ lastOutcome' = IF failed THEN "failed" ELSE "ok"

\* fetchAll past its canFetch test: both requests go out in the one
\* Promise.all([fetch(currentUrl), fetch(forecastUrl)]).
FetchAllOp(kind, viaRefresh, loc) ==
    [IdleOp EXCEPT !.pc = "fa_fetch", !.kind = kind, !.path = "fetchAll",
                   !.viaRefresh = viaRefresh, !.loc = loc,
                   !.cRes = "pending", !.fRes = "pending"]

\* searchByCity past its query test: the current-conditions request goes out.
SearchOp(kind, viaRefresh, q) ==
    [IdleOp EXCEPT !.pc = "s_cur", !.kind = kind, !.path = "search",
                   !.viaRefresh = viaRefresh, !.q = q, !.cRes = "pending"]

-----------------------------------------------------------------------------
(* initByGeolocation *)

\* The locate button of the ready view or the retry button of the error view.
initByGeolocation ==
    /\ stage = "screen"
    /\ ReadyView \/ ErrorView
    /\ FreeSlots # {}
    /\ error' = NoError
    /\ loading' = TRUE
    /\ ops' = [ops EXCEPT ![NewSlot] = [IdleOp EXCEPT !.pc = "perm", !.kind = "init"]]
    /\ cycle' = CycleStart("init", coords)
    /\ UNCHANGED <<refreshing, units, query, coords, canFetch, tz, lastOutcome,
                   arrivals, dataVars, pureVars>>

\* Location.requestForegroundPermissionsAsync() settles.
PermissionSettles(i, outcome) ==
    /\ ops[i].pc = "perm"
    /\ \/ /\ outcome = "granted"
          /\ ops' = [ops EXCEPT ![i].pc = "pos"]
          /\ UNCHANGED <<error, loading, refreshing, lastOutcome>>
       \/ /\ outcome = "denied"
          /\ EndOp(i, ErrPermission, TRUE)
       \/ /\ outcome = "reject"
          /\ EndOp(i, InitCatch(error), TRUE)
    /\ UNCHANGED <<units, query, coords, canFetch, tz, arrivals, dataVars, pureVars, cycle>>

\* Location.getCurrentPositionAsync({}) settles: with a position, setCoords
\* and fetchAll, which returns at once without an API key.
PositionSettles(i, outcome) ==
    /\ ops[i].pc = "pos"
    /\ \/ /\ outcome \in Locs
          /\ coords' = outcome
          /\ cycle' = CycleStart("fetchAll", outcome)
          /\ IF ~canFetch
             THEN EndOp(i, ErrApiKey, TRUE)
             ELSE /\ ops' = [ops EXCEPT ![i] = FetchAllOp("init", FALSE, outcome)]
                  /\ UNCHANGED <<error, loading, refreshing, lastOutcome>>
       \/ /\ outcome = "reject"
          /\ EndOp(i, InitCatch(error), TRUE)
          /\ UNCHANGED <<coords, cycle>>
    /\ UNCHANGED <<units, query, canFetch, tz, arrivals, dataVars, pureVars>>

-----------------------------------------------------------------------------
(* fetchAll *)

Other(which) == IF which = "c" THEN "f" ELSE "c"
ResOf(op, which) == IF which = "c" THEN op.cRes ELSE op.fRes
JsonOf(op, which) == IF which = "c" THEN op.cJson ELSE op.fJson

\* One of the two fetches of Promise.all settles.  A rejection rejects the
\* Promise.all at once; the second fulfilment resolves it and both json()
\* calls go out.
FetchAllResponse(i, which, outcome) ==
    /\ ops[i].pc = "fa_fetch"
    /\ ResOf(ops[i], which) = "pending"
    /\ arrivals' = IF ResOf(ops[i], Other(which)) = "pending"
                   THEN arrivals \cup {which} ELSE arrivals
    /\ \/ /\ outcome = "reject"
          /\ EndOp(i, FetchAllCatch(error), TRUE)
       \/ /\ outcome \in {"ok", "notok"}
          /\ LET op1 == IF which = "c" THEN [ops[i] EXCEPT !.cRes = outcome]
                                        ELSE [ops[i] EXCEPT !.fRes = outcome]
                 both == ResOf(op1, Other(which)) # "pending"
             IN  ops' = [ops EXCEPT ![i] =
                           IF both THEN [op1 EXCEPT !.pc = "fa_json",
                                                    !.cJson = "pending",
                                                    !.fJson = "pending"]
                           ELSE op1]
          /\ UNCHANGED <<error, loading, refreshing, lastOutcome>>
    /\ UNCHANGED <<units, query, coords, canFetch, tz, dataVars, pureVars, cycle>>

\* The bodies a response can parse to.
BodiesOf(op, which) ==
    IF ~(ResOf(op, which) = "ok") THEN {ErrorBody}
    ELSE IF which = "c" THEN CurrentBodies(op.loc) ELSE ForecastBodies

\* One of the two json() calls settles.  With both bodies parsed the ok
\* flags are tested and the four cells are set.
FetchAllJson(i, which, rejects, body) ==
    /\ ops[i].pc = "fa_json"
    /\ JsonOf(ops[i], which) = "pending"
    /\ IF rejects
       THEN /\ EndOp(i, FetchAllCatch(error), TRUE)
            /\ UNCHANGED <<dataVars, cycle>>
       ELSE LET op1 == IF which = "c"
                       THEN [ops[i] EXCEPT !.cJson = "parsed", !.cData = Some(body)]
                       ELSE [ops[i] EXCEPT !.fJson = "parsed", !.fData = Some(body)]
                both == JsonOf(op1, Other(which)) = "parsed"
            IN  IF ~both
                THEN /\ ops' = [ops EXCEPT ![i] = op1]
                     /\ UNCHANGED <<error, loading, refreshing, lastOutcome, dataVars,
                                     cycle>>
                ELSE IF ~ResponseOk(op1.cRes) \/ ~ResponseOk(op1.fRes)
                THEN /\ EndOp(i, FetchAllCatch(error), TRUE)
                     /\ UNCHANGED <<dataVars, cycle>>
                ELSE /\ current' = op1.cData
                     /\ cityLabel' = op1.cData[1].name
                     /\ forecast' = compactForecast(ListOrEmpty(op1.fData[1]), tz)
                     /\ hourlyForecast' =
                            processHourlyForecast(Some(ListOrEmpty(op1.fData[1])), tz)
                     /\ error' = error
                     /\ loading' = FinallyLoading
                     /\ refreshing' = IF op1.viaRefresh THEN FALSE ELSE refreshing
                     /\ ops' = [ops EXCEPT ![i] = [op1 EXCEPT !.pc = "done"]]
                     /\ lastOutcome' = "ok"
                     /\ cycle' = [ForecastWritten(op1.loc) EXCEPT
                                    !.written = AllCells]
    /\ UNCHANGED <<units, query, coords, canFetch, tz, arrivals, pureVars>>

-----------------------------------------------------------------------------
(* searchByCity *)

\* The search button or the submit key of the search box.
searchByCity ==
    /\ stage = "screen"
    /\ ReadyView
    /\ FreeSlots # {}
    /\ IF Trim(query) = ""
       THEN UNCHANGED <<error, loading, ops, cycle>>
       ELSE /\ error' = NoError
            /\ loading' = TRUE
            /\ ops' = [ops EXCEPT ![NewSlot] = SearchOp("search", FALSE, query)]
            /\ cycle' = CycleStart("search", coords)
    /\ UNCHANGED <<refreshing, units, query, coords, canFetch, tz, lastOutcome,
                   arrivals, dataVars, pureVars>>

\* fetch(currentUrl) settles.
SearchCurrentResponse(i, outcome) ==
    /\ ops[i].pc = "s_cur"
    /\ \/ /\ outcome = "reject"
          /\ EndOp(i, SearchCatch(error), TRUE)
       \/ /\ outcome \in {"ok", "notok"}
          /\ ops' = [ops EXCEPT ![i].cRes = outcome, ![i].cJson = "pending",
                                ![i].pc = "s_curjson"]
          /\ UNCHANGED <<error, loading, refreshing, lastOutcome>>
    /\ UNCHANGED <<units, query, coords, canFetch, tz, arrivals, dataVars, pureVars, cycle>>

\* Faulty variant of the next: the body is stored before cRes.ok is tested.
SearchCurrentJsonEager(i, rejects, body) ==
    /\ ops[i].pc = "s_curjson"
    /\ IF rejects
       THEN /\ EndOp(i, SearchCatch(error), TRUE)
            /\ UNCHANGED <<coords, current, cityLabel, cycle>>
       ELSE /\ coords' = NoCoords
            /\ current' = Some(body)
            /\ cityLabel' = body.name
            /\ cycle' = CurrentWritten
            /\ IF ~ResponseOk(ops[i].cRes)
               THEN EndOp(i, SearchCatch(error), TRUE)
               ELSE /\ ops' = [ops EXCEPT ![i].cJson = "parsed",
                                          ![i].cData = Some(body),
                                          ![i].loc = body.coord,
                                          ![i].fRes = "pending",
                                          ![i].pc = "s_fc"]
                    /\ UNCHANGED <<error, loading, refreshing, lastOutcome>>
    /\ UNCHANGED <<units, query, canFetch, tz, arrivals, forecast, hourlyForecast,
                   pureVars>>

\* cRes.json() settles.  A success body resets coords, is stored as current
\* and names the place the forecast request is for.
SearchCurrentJson(i, rejects, body) ==
    /\ ops[i].pc = "s_curjson"
    /\ IF rejects \/ ~ResponseOk(ops[i].cRes)
       THEN /\ EndOp(i, SearchCatch(error), TRUE)
            /\ UNCHANGED <<coords, current, cityLabel, cycle>>
       ELSE /\ coords' = NoCoords
            /\ current' = Some(body)
            /\ cityLabel' = body.name
            /\ cycle' = CurrentWritten
            /\ ops' = [ops EXCEPT ![i].cJson = "parsed", ![i].cData = Some(body),
                                  ![i].loc = body.coord, ![i].fRes = "pending",
                                  ![i].pc = "s_fc"]
            /\ UNCHANGED <<error, loading, refreshing, lastOutcome>>
    /\ UNCHANGED <<units, query, canFetch, tz, arrivals, forecast, hourlyForecast,
                   pureVars>>

\* fetch(forecastUrl) settles.
SearchForecastResponse(i, outcome) ==
    /\ ops[i].pc = "s_fc"
    /\ \/ /\ outcome = "reject"
          /\ EndOp(i, SearchCatch(error), TRUE)
       \/ /\ outcome \in {"ok", "notok"}
          /\ ops' = [ops EXCEPT ![i].fRes = outcome, ![i].fJson = "pending",
                                ![i].pc = "s_fcjson"]
          /\ UNCHANGED <<error, loading, refreshing, lastOutcome>>
    /\ UNCHANGED <<units, query, coords, canFetch, tz, arrivals, dataVars, pureVars, cycle>>

\* fRes.json() settles.
SearchForecastJson(i, rejects, body) ==
    /\ ops[i].pc = "s_fcjson"
    /\ IF rejects \/ ~ResponseOk(ops[i].fRes)
       THEN /\ EndOp(i, SearchCatch(error), TRUE)
            /\ UNCHANGED <<forecast, hourlyForecast, cycle>>
       ELSE /\ forecast' = compactForecast(ListOrEmpty(body), tz)
            /\ hourlyForecast' = processHourlyForecast(Some(ListOrEmpty(body)), tz)
            /\ error' = error
            /\ loading' = FinallyLoading
            /\ refreshing' = IF ops[i].viaRefresh THEN FALSE ELSE refreshing
            /\ ops' = [ops EXCEPT ![i].fJson = "parsed", ![i].fData = Some(body),
                                  ![i].pc = "done"]
            /\ lastOutcome' = "ok"
            /\ cycle' = ForecastWritten(ops[i].loc)
    /\ UNCHANGED <<units, query, coords, canFetch, tz, arrivals, current, cityLabel,
                   pureVars>>

-----------------------------------------------------------------------------
(* onRefresh / refreshData *)

\* The pull of the RefreshControl.  refreshData returns at once with neither
\* coordinates nor a query; with coordinates it calls fetchAll, otherwise
\* searchByCity, which returns at once on a blank query.
onRefresh ==
    /\ stage = "screen"
    /\ ReadyView
    /\ FreeSlots # {}
    /\ IF coords = NoCoords /\ query = ""
       THEN UNCHANGED <<error, loading, refreshing, ops, lastOutcome, cycle>>
       ELSE IF coords # NoCoords
       THEN IF ~canFetch
            THEN /\ error' = ErrApiKey
                 /\ loading' = FinallyLoading
                 /\ refreshing' = FALSE
                 /\ lastOutcome' = "failed"
                 /\ cycle' = CycleStart("fetchAll", coords)
                 /\ UNCHANGED ops
            ELSE /\ error' = NoError
                 /\ loading' = TRUE
                 /\ refreshing' = TRUE
                 /\ ops' = [ops EXCEPT ![NewSlot] = FetchAllOp("refresh", TRUE, coords)]
                 /\ cycle' = CycleStart("fetchAll", coords)
                 /\ UNCHANGED lastOutcome
       ELSE IF Trim(query) = ""
       THEN /\ error' = NoError
            /\ loading' = FinallyLoading
            /\ refreshing' = FALSE
            /\ UNCHANGED <<ops, lastOutcome, cycle>>
       ELSE /\ error' = NoError
            /\ loading' = TRUE
            /\ refreshing' = TRUE
            /\ ops' = [ops EXCEPT ![NewSlot] = SearchOp("refresh", TRUE, query)]
            /\ cycle' = CycleStart("search", coords)
            /\ UNCHANGED lastOutcome
    /\ UNCHANGED <<units, query, coords, canFetch, tz, arrivals, dataVars, pureVars>>

-----------------------------------------------------------------------------
(* The search box and the units switch *)

\* onChangeText={setQuery}
setQuery(q) ==
    /\ stage = "screen"
    /\ ReadyView
    /\ query' = q
    /\ UNCHANGED <<loading, refreshing, error, units, coords, canFetch, tz, ops,
                   lastOutcome, arrivals, dataVars, pureVars, cycle>>

\* setUnits((prev) => (prev === 'metric' ? 'imperial' : 'metric'))
NextUnits(prev) == IF prev = "metric" THEN "imperial" ELSE "metric"

\* The conversion of displayTemp applied to a stored body.
ConvertStored(cur, u) ==
    IF cur = Null THEN cur
    ELSE Some([cur[1] EXCEPT !.temp = 10 * displayTemp(@, u)])

\* Faulty variant of toggleUnits: the stored temperature is converted too.
toggleUnitsConverting ==
    /\ stage = "screen"
    /\ ReadyView
    /\ units' = NextUnits(units)
    /\ current' = ConvertStored(current, units')
    /\ UNCHANGED <<loading, refreshing, error, query, coords, canFetch, tz, ops,
                   lastOutcome, arrivals, cityLabel, forecast, hourlyForecast,
                   pureVars, cycle>>

\* onValueChange={toggleUnits} of the units switch.
toggleUnits ==
    /\ stage = "screen"
    /\ ReadyView
    /\ units' = NextUnits(units)
    /\ UNCHANGED <<loading, refreshing, error, query, coords, canFetch, tz, ops,
                   lastOutcome, arrivals, dataVars, pureVars, cycle>>

-----------------------------------------------------------------------------
(* The screen *)

Next ==
    \/ initByGeolocation
    \/ \E i \in 1..MaxOps : \E o \in {"granted", "denied", "reject"} :
          PermissionSettles(i, o)
    \/ \E i \in 1..MaxOps : \E o \in Locs \cup {"reject"} : PositionSettles(i, o)
    \/ \E i \in 1..MaxOps : \E w \in {"c", "f"} : \E o \in ApiOutcomes :
          FetchAllResponse(i, w, o)
    \/ \E i \in 1..MaxOps : \E w \in {"c", "f"} :
          \/ FetchAllJson(i, w, TRUE, ErrorBody)
          \/ \E b \in BodiesOf(ops[i], w) : FetchAllJson(i, w, FALSE, b)
    \/ searchByCity
    \/ \E i \in 1..MaxOps : \E o \in ApiOutcomes : SearchCurrentResponse(i, o)
    \/ \E i \in 1..MaxOps :
          \/ SearchCurrentJson(i, TRUE, ErrorBody)
          \/ \E b \in (IF ops[i].cRes = "ok" THEN CurrentBodies(CityOf(ops[i].q))
                       ELSE {ErrorBody}) : SearchCurrentJson(i, FALSE, b)
    \/ \E i \in 1..MaxOps : \E o \in ApiOutcomes : SearchForecastResponse(i, o)
    \/ \E i \in 1..MaxOps :
          \/ SearchForecastJson(i, TRUE, ErrorBody)
          \/ \E b \in (IF ops[i].fRes = "ok" THEN ForecastBodies ELSE {ErrorBody}) :
                SearchForecastJson(i, FALSE, b)
    \/ onRefresh
    \/ \E q \in Queries : setQuery(q)
    \/ toggleUnits

Spec == Init /\ [][Next]_vars

\* The steps of the user: the controls of the ready view and the retry
\* button of the error view.
UserStep ==
    \/ initByGeolocation
    \/ searchByCity
    \/ onRefresh
    \/ \E q \in Queries : setQuery(q)
    \/ toggleUnits

\* The steps of the platform: an awaited call of an operation in flight
\* settles and the operation runs on to its next await or to its return.
Settle ==
    \/ \E i \in 1..MaxOps : \E o \in {"granted", "denied", "reject"} :
          PermissionSettles(i, o)
    \/ \E i \in 1..MaxOps : \E o \in Locs \cup {"reject"} : PositionSettles(i, o)
    \/ \E i \in 1..MaxOps : \E w \in {"c", "f"} : \E o \in ApiOutcomes :
          FetchAllResponse(i, w, o)
    \/ \E i \in 1..MaxOps : \E w \in {"c", "f"} :
          \/ FetchAllJson(i, w, TRUE, ErrorBody)
          \/ \E b \in BodiesOf(ops[i], w) : FetchAllJson(i, w, FALSE, b)
    \/ \E i \in 1..MaxOps : \E o \in ApiOutcomes : SearchCurrentResponse(i, o)
    \/ \E i \in 1..MaxOps :
          \/ SearchCurrentJson(i, TRUE, ErrorBody)
          \/ \E b \in (IF ops[i].cRes = "ok" THEN CurrentBodies(CityOf(ops[i].q))
                       ELSE {ErrorBody}) : SearchCurrentJson(i, FALSE, b)
    \/ \E i \in 1..MaxOps : \E o \in ApiOutcomes : SearchForecastResponse(i, o)
    \/ \E i \in 1..MaxOps :
          \/ SearchForecastJson(i, TRUE, ErrorBody)
          \/ \E b \in (IF ops[i].fRes = "ok" THEN ForecastBodies ELSE {ErrorBody}) :
                SearchForecastJson(i, FALSE, b)

\* The screen on a platform whose awaited calls all settle: a call that is
\* pending is not left pending for ever.
SpecLive == Init /\ [][Next]_vars /\ WF_vars(Settle)

-----------------------------------------------------------------------------
(* Claims about the screen *)

\* A step of a handler that starts a fetch operation.
StartsFetch == (initByGeolocation \/ searchByCity \/ onRefresh) /\ ops' # ops

\* C1: every failure of a fetch operation ends in the error view: once the
\* operation that failed has returned, error holds a message and loading is
\* false.  Without an API key every operation is such a failure.
C1_FailureEndsInErrorView ==
    (InFlight = {} /\ lastOutcome # "none") =>
        /\ ~canFetch => lastOutcome = "failed"
        /\ lastOutcome = "failed" => (error # NoError /\ ~loading)

\* A city search failed while an earlier result is still stored.
C1_Witness ==
    /\ lastOutcome = "failed"
    /\ InFlight = {}
    /\ error = ErrCity
    /\ current # Null

\* C2 as stated: while a fetch operation is in flight the user can start
\* another one.
C2_SecondFetchCanStart == (InFlight # {}) => ENABLED StartsFetch

\* C2 as amended: an operation in flight has the loading view on screen, in
\* which nothing starts a fetch, so at most one operation is in flight.
C2_AtMostOneInFlight ==
    /\ Cardinality(InFlight) <= 1
    /\ (InFlight # {}) => (loading /\ ~ENABLED StartsFetch)

\* A pull-to-refresh is in flight, its two requests pending.
C2_Witness ==
    \E i \in InFlight :
        /\ ops[i].kind = "refresh"
        /\ ops[i].pc = "fa_fetch"
        /\ current # Null

\* C3: fetchAll has issued both of its requests whenever it waits for a
\* response; searchByCity has issued its forecast request only with the
\* current-conditions response received, successful and parsed.
C3_RequestOrder ==
    \A i \in 1..MaxOps :
        /\ (ops[i].path = "fetchAll" /\ ops[i].pc = "fa_fetch")
              => (ops[i].cRes # "none" /\ ops[i].fRes # "none")
        /\ (ops[i].path = "search" /\ ops[i].fRes # "none")
              => (ops[i].cRes = "ok" /\ ops[i].cJson = "parsed")

\* fetchAll has seen its responses arrive in both orders, and a city search
\* waits for its forecast.
C3_Witness ==
    /\ arrivals = {"c", "f"}
    /\ \E i \in InFlight : ops[i].path = "search" /\ ops[i].pc = "s_fc"

\* C4: a step that changes units changes nothing else of the stored data or
\* the view state, and starts no request.
C4_ToggleIsDisplayOnly ==
    [][units' # units =>
          UNCHANGED <<current, forecast, hourlyForecast, coords, cityLabel,
                      loading, error, ops>>]_vars

\* Imperial units are shown while the stored temperature is a metric value
\* of the API, which displays as a different number.
C4_Witness ==
    /\ units = "imperial"
    /\ current # Null
    /\ current[1].temp \in CurrentTemps
    /\ displayTemp(current[1].temp, units) # displayTemp(current[1].temp, "metric")

-----------------------------------------------------------------------------
(* The transforms on their own *)

\* The inputs of the transform specifications.  Three families of lists:
\* lists of samples with distinct timestamps over more than ForecastDays
\* days, in every order; short lists whose samples vary in day, temperatures
\* and weather; and lists longer than HourlySamples.
MaxDay == 5
MaxTempLen == 3
MaxHourLen == 9

\* The forecast's resolution: one sample every three hours.
SampleStep == 10800

IsInjective(seq) == \A i, j \in 1..Len(seq) : i # j => seq[i] # seq[j]

\* Midnight UTC of each day, and a second sample on the first day.
DayDts == {d * SecondsPerDay : d \in 0..MaxDay} \cup {SampleStep}
DaySamples == {Sample(dt, 100, 200, Weather("Clear", "cielo claro")) : dt \in DayDts}

Temps == {96, 215}
TempSamples ==
    {Sample(dt, tmin, tmax, w) :
        dt \in {0, SampleStep, SecondsPerDay}, tmin \in Temps, tmax \in Temps,
        w \in {<<>>, Weather("Rain", "lluvia ligera")}}

HourSamples ==
    {Sample(0, 180, 215, Weather("Clear", "cielo claro")),
     Sample(SampleStep, -60, -35, <<>>)}

\* The screen's cells before any transform ran; input is the list member of
\* a forecast body, absent or a list.
InitCells ==
    /\ loading = TRUE
    /\ refreshing = FALSE
    /\ error = NoError
    /\ units = "metric"
    /\ query = ""
    /\ coords = NoCoords
    /\ cityLabel = ""
    /\ current = Null
    /\ forecast = <<>>
    /\ hourlyForecast = Null
    /\ canFetch = TRUE
    /\ tz \in TZOffsets
    /\ ops = [i \in 1..MaxOps |-> IdleOp]
    /\ lastOutcome = "none"
    /\ arrivals = {}
    /\ cycle = CycleInit
    /\ icon = Null
    /\ image = Null
    /\ stage = "input"

InitDays ==
    /\ InitCells
    /\ \E k \in 0..(ForecastDays + 2) : \E l \in [1..k -> DaySamples] :
          IsInjective(l) /\ input = Some(l)

InitTemps ==
    /\ InitCells
    /\ \E k \in 0..MaxTempLen : \E l \in [1..k -> TempSamples] : input = Some(l)

InitHourly ==
    /\ InitCells
    /\ \/ input = Null
       \/ \E k \in 0..MaxHourLen : \E l \in [1..k -> HourSamples] : input = Some(l)

\* The two calls the handlers make on a forecast body:
\* compactForecast(fData?.list || []) and processHourlyForecast of the list.
\* The hourly transform is handed the member as it is, absent or not.
Transform ==
    /\ stage = "input"
    /\ stage' = "done"
    /\ forecast' = compactForecast(ListOrEmpty([list |-> input]), tz)
    /\ hourlyForecast' = processHourlyForecast(input, tz)
    /\ UNCHANGED <<uiVars, tz, input, icon, image>>

NextTransform == Transform

SpecDays == InitDays /\ [][NextTransform]_vars
SpecTemps == InitTemps /\ [][NextTransform]_vars
SpecHourly == InitHourly /\ [][NextTransform]_vars

\* The list compactForecast was applied to.
InputList == ListOrEmpty([list |-> input])

\* The calendar days of the input, and the samples of a day in input order.
InputDays == {DayKey(InputList[i].dt, tz) : i \in 1..Len(InputList)}
IndicesOfDay(k) == {i \in 1..Len(InputList) : DayKey(InputList[i].dt, tz) = k}
FirstOfDay(k) ==
    InputList[CHOOSE i \in IndicesOfDay(k) : \A j \in IndicesOfDay(k) : i <= j]

\* The representative timestamp of each day of the input.
RepresentativeDts == {FirstOfDay(k).dt : k \in InputDays}
ForecastDts == {forecast[i].dt : i \in 1..Len(forecast)}

-----------------------------------------------------------------------------
(* Claims about compactForecast *)

\* C5: compactForecast returns at most five entries, and no two of them fall
\* on the same calendar day.
C5_AtMostFiveDistinctDays ==
    stage = "done" =>
        /\ Len(forecast) <= 5
        /\ \A i, j \in 1..Len(forecast) :
              i # j => DayKey(forecast[i].dt, tz) # DayKey(forecast[j].dt, tz)

\* An input of more than five days, two of its samples on one day, was
\* compacted to five entries.
C5_Witness ==
    /\ stage = "done"
    /\ Cardinality(InputDays) > 5
    /\ Len(InputList) > Cardinality(InputDays)
    /\ Len(forecast) = 5

\* C6: the entries are in ascending order of dt, whatever the order of the
\* input, and they are the days with the smallest representative timestamps:
\* all of them when the input has at most five days, five otherwise.
C6_SortedSmallestFive ==
    stage = "done" =>
        LET reps == RepresentativeDts
            kept == ForecastDts
        IN  /\ \A i \in 1..(Len(forecast) - 1) : forecast[i].dt < forecast[i + 1].dt
            /\ kept \subseteq reps
            /\ Len(forecast) = Min(5, Cardinality(reps))
            /\ \A k \in kept : \A dropped \in reps \ kept : k < dropped

\* An input of more than five days that starts with its latest sample: the
\* day of that sample is the one dropped.
C6_Witness ==
    /\ stage = "done"
    /\ Cardinality(InputDays) > 5
    /\ \A i \in 2..Len(InputList) : InputList[1].dt > InputList[i].dt
    /\ InputList[1].dt \notin ForecastDts
    /\ Len(forecast) = 5

\* C7 as stated: every entry has temp_min <= temp_max, for every input.
C7_MinAtMostMax ==
    stage = "done" =>
        \A i \in 1..Len(forecast) : forecast[i].temp_min <= forecast[i].temp_max

\* C7 as amended: every entry has temp_min <= temp_max when every sample of
\* the input has.
C7_MinAtMostMaxOfSoundInput ==
    (/\ stage = "done"
     /\ \A i \in 1..Len(InputList) :
           InputList[i].main.temp_min <= InputList[i].main.temp_max) =>
        \A i \in 1..Len(forecast) : forecast[i].temp_min <= forecast[i].temp_max

\* Two samples of one day, each with temp_min = temp_max, the warmer one
\* first: the entry's range comes from folding both.
C7_Witness ==
    /\ stage = "done"
    /\ Len(InputList) = 2
    /\ \A i \in 1..2 : InputList[i].main.temp_min = InputList[i].main.temp_max
    /\ InputList[1].main.temp_max > InputList[2].main.temp_max
    /\ Len(forecast) = 1
    /\ forecast[1].temp_min < forecast[1].temp_max

-----------------------------------------------------------------------------
(* Claims about processHourlyForecast *)

\* C9: the result is null exactly when the list is missing or has fewer than
\* two samples.
C9_NullBelowTwoSamples ==
    stage = "done" =>
        ((hourlyForecast = Null) <=> (input = Null \/ Len(input[1]) < 2))

\* A list of one sample gave null.
C9_Witness ==
    /\ stage = "done"
    /\ input # Null
    /\ Len(input[1]) = 1
    /\ hourlyForecast = Null

\* C10: for n >= 2 samples, labels, data and icons have min(n, 8) elements,
\* the i-th of each computed from the i-th sample alone.
C10_FirstEightInOrder ==
    (stage = "done" /\ input # Null /\ Len(InputList) >= 2) =>
        /\ hourlyForecast # Null
        /\ LET h == hourlyForecast[1]
               n == Min(Len(InputList), 8)
           IN  /\ Len(h.labels) = n
               /\ Len(h.data) = n
               /\ Len(h.icons) = n
               /\ \A i \in 1..n :
                     /\ h.labels[i] = <<GetHours(InputList[i].dt, tz), ":00">>
                     /\ h.data[i] = MathRound(InputList[i].main.temp_max)
                     /\ h.icons[i] = getWeatherIcon(WeatherMain0(InputList[i]))

\* Nine samples, the ninth unlike the eighth: eight elements came out, the
\* last one from the eighth sample.
C10_Witness ==
    /\ stage = "done"
    /\ Len(InputList) = 9
    /\ InputList[9] # InputList[8]
    /\ hourlyForecast # Null
    /\ Len(hourlyForecast[1].data) = 8
    /\ hourlyForecast[1].data[8] = MathRound(InputList[8].main.temp_max)
    /\ hourlyForecast[1].data[8] # MathRound(InputList[9].main.temp_max)

-----------------------------------------------------------------------------
(* The condition mappings on their own *)

\* The keywords handed to the mappings: the API's condition groups, the
\* string of undefined, strings the tables do not hold, and strings that
\* name members of Object.prototype.
Keywords ==
    DOMAIN IconMap \cup {Undefined, "", "clear", "Hail", "Unknown"}
        \cup ObjectPrototypeKeys

InitMapping ==
    /\ InitCells
    /\ input \in Keywords

\* getWeatherIcon(input) and getWeatherImage(input), in either order.
ApplyIcon ==
    /\ stage = "input"
    /\ icon = Null
    /\ icon' = Some(getWeatherIcon(input))
    /\ UNCHANGED <<uiVars, forecast, hourlyForecast, tz, input, image, stage>>

ApplyImage ==
    /\ stage = "input"
    /\ image = Null
    /\ image' = Some(getWeatherImage(input))
    /\ UNCHANGED <<uiVars, forecast, hourlyForecast, tz, input, icon, stage>>

NextMapping == ApplyIcon \/ ApplyImage

SpecMapping == InitMapping /\ [][NextMapping]_vars

\* C11: for every keyword each mapping returns the keyword's table entry when
\* the table has one, and its fallback ('partly-sunny', the default image)
\* when it has none.
C11_MappingTotal ==
    /\ icon # Null =>
          icon[1] = (IF input \in DOMAIN IconMap THEN IconMap[input]
                     ELSE "partly-sunny")
    /\ image # Null =>
          image[1] = (IF input \in DOMAIN ImageMap THEN ImageMap[input]
                      ELSE DefaultImage)

-----------------------------------------------------------------------------
(* Claims about refreshData *)

\* C12: a refresh re-fetches for the stored coordinates when there are any,
\* and otherwise for the city that was searched last, which is the city on
\* display, whatever the search box has come to hold since.
C12_RefreshReloadsDisplayedCity ==
    \A i \in InFlight :
        ops[i].kind = "refresh" =>
            /\ ops[i].path = "fetchAll" => ops[i].loc = coords
            /\ (ops[i].path = "search" /\ ops[i].pc = "s_cur")
                  => CityOf(ops[i].q) = cityLabel

-----------------------------------------------------------------------------
(* Claim C13 *)

\* C13: whenever the ready view is shown, current is set and the four cells
\* current, cityLabel, forecast and hourlyForecast were all written by the
\* one fetch cycle last started, which succeeded; the forecast and the hourly
\* series were requested for the place the current conditions are of.
C13_ReadyViewOfOneCycle ==
    ReadyView =>
        /\ current # Null
        /\ lastOutcome = "ok"
        /\ cycle.written = AllCells
        /\ cityLabel = current[1].name
        /\ cycle.forecastFor = current[1].coord
        /\ cycle.hourlyFor = current[1].coord

\* The ready view after a search for a place other than the one shown
\* before, with a forecast on display.
C13_Witness ==
    /\ ReadyView
    /\ cycle.path = "search"
    /\ cycle.before.current # Null
    /\ cycle.before.cityLabel # cityLabel
    /\ forecast # <<>>

-----------------------------------------------------------------------------
(* Claim C14 *)

\* A fetchAll or a searchByCity has returned with an error.
FetchFailed ==
    /\ InFlight = {}
    /\ lastOutcome = "failed"
    /\ cycle.path \in {"fetchAll", "search"}

\* C14 as stated: after a fetchAll or a searchByCity that ended in an error,
\* current, cityLabel, coords, forecast and hourlyForecast hold the values
\* they had when the operation started.
C14_FailedFetchLeavesDataUnchanged ==
    FetchFailed => Snapshot(coords) = cycle.before

\* C14 as amended: a failed fetchAll, and a searchByCity that failed before
\* its current-conditions response was accepted, leave the five cells as
\* they were; a searchByCity that failed at its forecast request has reset
\* coords to null and stored the accepted current-conditions body in current
\* and cityLabel; forecast and hourlyForecast are unchanged by every failure.
C14_FailedFetchKeepsForecast ==
    FetchFailed =>
        /\ forecast = cycle.before.forecast
        /\ hourlyForecast = cycle.before.hourlyForecast
        /\ cycle.written = {} => Snapshot(coords) = cycle.before
        /\ cycle.written # {} =>
              /\ cycle.path = "search"
              /\ cycle.written = {"current", "cityLabel"}
              /\ coords = NoCoords
              /\ current # Null
              /\ current[1].coord \in Locs
              /\ cityLabel = current[1].name

\* A search from a geolocated ready view failed at its forecast request: the
\* place on record changed, the forecast did not.
C14_Witness ==
    /\ FetchFailed
    /\ cycle.written = {"current", "cityLabel"}
    /\ cycle.before.coords # NoCoords
    /\ cycle.before.cityLabel # cityLabel
    /\ forecast # <<>>

-----------------------------------------------------------------------------
(* Claim C15 *)

\* C15: with every awaited call settling, an operation in flight leads to a
\* state with no operation in flight, loading false and refreshing false;
\* loading becomes true only by a step of the user that starts an operation;
\* and while an operation is in flight the loading view is up with no error
\* set and no control of the user enabled, so that only the settling of the
\* awaited call ends it.
C15_OperationsFinish ==
    /\ (InFlight # {}) ~> (InFlight = {} /\ ~loading /\ ~refreshing)
    /\ [][(~loading /\ loading') => StartsFetch]_vars
    /\ [](InFlight # {} => (loading /\ error = NoError /\ ~ENABLED UserStep))
    /\ [][(InFlight # {} /\ ~loading') => Settle]_vars

\* A pull-to-refresh has returned: the ready or the error view is up and the
\* refresh indicator is off.
C15_Witness ==
    /\ InFlight = {}
    /\ ~loading
    /\ ~refreshing
    /\ \E i \in 1..MaxOps : ops[i].pc = "done" /\ ops[i].kind = "refresh"

====
